---- MODULE Spec2Model ----
(***************************************************************************)
(* Model of src/bot.py (MKVToolNixBot): the per-user session map and the   *)
(* handlers pyrogram dispatches on it.  Every handler is a coroutine; its  *)
(* code between two awaits runs atomically on the event loop, and another  *)
(* handler (of any user) may run at each await.  A handler that holds      *)
(* state across an await is a task with a program counter.                 *)
(***************************************************************************)
EXTENDS Integers, Sequences, FiniteSets, TLC

VARIABLES
    user_sessions,  \* user id -> session object id, 0 when the key is absent
    heap,           \* session object id -> the session dict
    tasks,          \* handler coroutines suspended at an await
    out,            \* the last outbound effect (reply, answer, edit, spawn)
    call            \* the utility method followed in detail, its locals and effects

vars == <<user_sessions, heap, tasks, out, call>>

\* ---------------------------------------------------------------- bounds
\* files staged at a time, over all sessions of the map
MaxFiles == 2
\* handlers suspended at an await at a time
MaxTasks == 1

\* ------------------------------------------------------------- constants
MAX_FILE_SIZE == 2000000000

Users == {1, 2}
None == "None"

SUPPORTED_EXTENSIONS ==
    [video |-> {".mkv", ".mp4", ".avi", ".webm", ".mov"},
     audio |-> {".aac", ".ac3", ".dts", ".mp3", ".opus", ".flac", ".wav"},
     subtitles |-> {".srt", ".ass", ".ssa", ".vtt", ".pgs", ".sub"}]

\* A file name is the sequence of its dot-delimited segments; <<>> is a
\* message that carries no file name.
FileNames ==
    { <<"movie", "en", "mkv">>, <<"subs", "hi", "SRT">>, <<"notes", "txt">>, <<>> }

MessageKinds == {"document", "video", "audio"}
FileSizes == {MAX_FILE_SIZE, MAX_FILE_SIZE + 1}
\* the messages the transport delivers: every kind and name at an accepted
\* size, and every kind of one name above the limit
Messages ==
    {m \in [kind : MessageKinds, file_size : FileSizes, file_name : FileNames] :
        m.file_size > MAX_FILE_SIZE => m.file_name = <<"movie", "en", "mkv">>}

\* str.lower() on the strings that occur in the model
Lower(s) ==
    CASE s = "SRT" -> "srt"
      [] s = "EN" -> "en"
      [] s = "Video" -> "video"
      [] OTHER -> s

\* Path(file_name).suffix.lower(): the last segment with its dot, "" when
\* the name has no dot
Suffix(file_name) ==
    IF Len(file_name) >= 2 THEN "." \o Lower(file_name[Len(file_name)]) ELSE ""

\* faulty variant: an extension in no list is taken for a video
FileTypeOf_Any(file_ext) ==
    IF file_ext \in SUPPORTED_EXTENSIONS.audio THEN "audio"
    ELSE IF file_ext \in SUPPORTED_EXTENSIONS.subtitles THEN "subtitles"
    ELSE "video"

\* the loop over SUPPORTED_EXTENSIONS.items(): the type whose list holds the
\* extension (the lists are disjoint), None when there is none
FileTypeOf(file_ext) ==
    IF file_ext \in SUPPORTED_EXTENSIONS.video THEN "video"
    ELSE IF file_ext \in SUPPORTED_EXTENSIONS.audio THEN "audio"
    ELSE IF file_ext \in SUPPORTED_EXTENSIONS.subtitles THEN "subtitles"
    ELSE None

\* ------------------------------------------------------------------ heap
MaxObjs == Cardinality(Users) + MaxTasks
Objs == 1..MaxObjs
TaskIds == 1..MaxTasks

NewSession == [files |-> <<>>, current_operation |-> None, processing |-> FALSE]
IdleTask == [pc |-> "idle", user |-> 0, sess |-> 0]

\* Object identity.  A session dict is a heap object; the map and the local
\* variable 'session' of a suspended handler hold references to it.  Object
\* ids are kept canonical: the object the map holds for user u has id u, and
\* an object that left the map while suspended handlers still hold it has an
\* id above the user ids, in the order of the first task slot holding it.
Mapped(us) == {us[u] : u \in Users} \ {0}
Detached(us, ts) == {ts[t].sess : t \in TaskIds} \ ({0} \cup Mapped(us))

FirstHolder(ts, o) ==
    CHOOSE t \in TaskIds : ts[t].sess = o /\ \A s \in TaskIds : ts[s].sess = o => t <= s

Rename(us, ts, o) ==
    IF o = 0 THEN 0
    ELSE IF o \in Mapped(us) THEN CHOOSE u \in Users : us[u] = o
    ELSE Cardinality(Users) +
         Cardinality({p \in Detached(us, ts) : FirstHolder(ts, p) <= FirstHolder(ts, o)})

\* Garbage collection: an object nobody references is reclaimed, and what
\* no handler can read any more is dropped.  Of a session that left the map,
\* a suspended remove_last_file reads only whether 'files' is empty (line
\* 421), and a suspended handle_extract_tracks reads nothing.
Collect(us, hp, ts, o) ==
    IF o \in Mapped(us) THEN hp[o]
    ELSE IF \E t \in TaskIds : ts[t].sess = o /\ ts[t].pc = "removed"
         THEN [NewSession EXCEPT
                  !.files = SubSeq(hp[o].files, 1, IF hp[o].files = <<>> THEN 0 ELSE 1)]
         ELSE NewSession

\* the next state: the map, the heap and the tasks as the step leaves them
Store(us, hp, ts) ==
    /\ user_sessions' = [u \in Users |-> Rename(us, ts, us[u])]
    /\ tasks' = [t \in TaskIds |-> [ts[t] EXCEPT !.sess = Rename(us, ts, ts[t].sess)]]
    /\ heap' = [n \in Objs |->
                  IF \E o \in Mapped(us) \cup Detached(us, ts) : Rename(us, ts, o) = n
                  THEN Collect(us, hp, ts,
                          CHOOSE o \in Mapped(us) \cup Detached(us, ts) : Rename(us, ts, o) = n)
                  ELSE NewSession]

\* an object id no reference uses, for a dict being created
FreshObj(us, ts) == CHOOSE o \in Objs : o \notin Mapped(us) \cup Detached(us, ts)

RECURSIVE SumLen(_, _, _)
SumLen(us, hp, S) ==
    IF S = {} THEN 0
    ELSE LET u == CHOOSE x \in S : TRUE
         IN (IF us[u] = 0 THEN 0 ELSE Len(hp[us[u]].files)) + SumLen(us, hp, S \ {u})

\* the number of files staged in the sessions of the map
StagedCount == SumLen(user_sessions, heap, Users)

FreeTask == CHOOSE t \in TaskIds : tasks[t].pc = "idle" /\
                \A s \in TaskIds : tasks[s].pc = "idle" => t <= s

HasFreeTask == \E t \in TaskIds : tasks[t].pc = "idle"

\* user_id in user_sessions
HasSession(us, u) == us[u] # 0

\* faulty variant: user_sessions.clear()
DeleteSession_All(us, u) == [v \in Users |-> 0]

\* del user_sessions[user_id]
DeleteSession(us, u) == [us EXCEPT ![u] = 0]

\* the reply / answer / edit the step ends in
Emit(u, event, text) == [user |-> u, event |-> event, text |-> text]

\* no utility method is followed in detail
NoCall == [fn |-> None]

Init ==
    /\ user_sessions = [u \in Users |-> 0]
    /\ heap = [o \in Objs |-> NewSession]
    /\ tasks = [t \in TaskIds |-> IdleTask]
    /\ out = Emit(0, "init", "")
    /\ call = NoCall

\* --------------------------------------------------------- /cancel, /reset
handle_cancel(u) ==
    IF HasSession(user_sessions, u)
    THEN /\ Store(DeleteSession(user_sessions, u), heap, tasks)
         /\ out' = Emit(u, "/cancel", "Current operation cancelled.")
    ELSE /\ out' = Emit(u, "/cancel", "No active operation to cancel.")
         /\ UNCHANGED <<user_sessions, heap, tasks>>

\* faulty variant: /reset that spares a session with an operation selected
handle_reset_IfIdle(u) ==
    IF HasSession(user_sessions, u) /\ heap[user_sessions[u]].current_operation = None
    THEN /\ Store(DeleteSession(user_sessions, u), heap, tasks)
         /\ out' = Emit(u, "/reset", "Session reset.")
    ELSE /\ out' = Emit(u, "/reset", "No active session to reset.")
         /\ UNCHANGED <<user_sessions, heap, tasks>>

handle_reset(u) ==
    IF HasSession(user_sessions, u)
    THEN /\ Store(DeleteSession(user_sessions, u), heap, tasks)
         /\ out' = Emit(u, "/reset", "Session reset.")
    ELSE /\ out' = Emit(u, "/reset", "No active session to reset.")
         /\ UNCHANGED <<user_sessions, heap, tasks>>

\* ------------------------------------------------------------ file upload
\* faulty variant: the file is not appended
AppendFile_Dropped(files, f) == files

\* user_sessions[user_id]['files'].append({...})
AppendFile(files, f) == Append(files, f)

StagedFile(msg) ==
    [file_name |-> msg.file_name, file_type |-> FileTypeOf(Suffix(msg.file_name))]

TooLarge(msg) == msg.kind = "document" /\ msg.file_size > MAX_FILE_SIZE

handle_file_input(u, msg) ==
    \/ /\ TooLarge(msg)
       /\ out' = Emit(u, "file", "File is too large!")
       /\ UNCHANGED <<user_sessions, heap, tasks>>
    \/ /\ ~TooLarge(msg)
       /\ msg.file_name = <<>>
       /\ out' = Emit(u, "file", "Could not determine file name.")
       /\ UNCHANGED <<user_sessions, heap, tasks>>
    \/ /\ ~TooLarge(msg)
       /\ msg.file_name # <<>>
       /\ FileTypeOf(Suffix(msg.file_name)) = None
       /\ out' = Emit(u, "file", "Unsupported file type")
       /\ UNCHANGED <<user_sessions, heap, tasks>>
    \/ /\ ~TooLarge(msg)
       /\ msg.file_name # <<>>
       /\ FileTypeOf(Suffix(msg.file_name)) # None
       /\ StagedCount < MaxFiles
       /\ LET o == IF HasSession(user_sessions, u) THEN user_sessions[u]
                   ELSE FreshObj(user_sessions, tasks)
              session == IF HasSession(user_sessions, u) THEN heap[o] ELSE NewSession
          IN Store([user_sessions EXCEPT ![u] = o],
                   [heap EXCEPT ![o] = [session EXCEPT
                       !.files = AppendFile(session.files, StagedFile(msg))]],
                   tasks)
       \* show_action_buttons reads user_sessions[user_id] before its await
       /\ out' = Emit(u, "file", "Choose an action:")

\* --------------------------------------------------------- button presses
CallbackData ==
    {"extract_tracks", "mux_files", "merge_files", "edit_metadata",
     "add_another_file", "view_files", "remove_last_file", "cancel_operation",
     "set_output_title", "start_muxing"}

\* faulty variant: the file_type test is missing
ExtractPrecond_AnyKind(files) == ~(Len(files) # 1)

\* the negation of each handler's early-return test
ExtractPrecond(files) == ~(Len(files) # 1 \/ files[1].file_type # "video")
MuxPrecond(files) == ~(Len(files) < 2)
MergePrecond(files) == ~(Len(files) < 2)
EditPrecond(files) == ~(Len(files) # 1 \/ files[1].file_type # "video")

\* session['current_operation'] = op
SetOperation(hp, o, op) == [hp EXCEPT ![o].current_operation = op]

\* faulty variant: session['files'].pop(0)
Pop_First(files) == SubSeq(files, 2, Len(files))

\* session['files'].pop()
Pop(files) == SubSeq(files, 1, Len(files) - 1)

\* a handler that suspends with state of its own becomes a task
Suspend(ts, pc, u, o) == [ts EXCEPT ![FreeTask] = [pc |-> pc, user |-> u, sess |-> o]]

handle_extract_tracks(u) ==
    LET o == user_sessions[u] IN
    IF ~ExtractPrecond(heap[o].files)
    THEN /\ out' = Emit(u, "extract_tracks", "Please send a single video file first.")
         /\ UNCHANGED <<user_sessions, heap, tasks>>
    ELSE \* download_file runs up to its first await, the progress message
         /\ HasFreeTask
         /\ Store(user_sessions, SetOperation(heap, o, "extract_tracks"),
                  Suspend(tasks, "downloading", u, o))
         /\ out' = Emit(u, "extract_tracks", "Downloading...")

handle_mux_files(u) ==
    LET o == user_sessions[u] IN
    IF ~MuxPrecond(heap[o].files)
    THEN /\ out' = Emit(u, "mux_files", "Please send at least 2 files to mux.")
         /\ UNCHANGED <<user_sessions, heap, tasks>>
    ELSE /\ Store(user_sessions, SetOperation(heap, o, "mux_files"), tasks)
         /\ out' = Emit(u, "mux_files", "Configure muxing options:")

handle_merge_files(u) ==
    LET o == user_sessions[u] IN
    IF ~MergePrecond(heap[o].files)
    THEN /\ out' = Emit(u, "merge_files", "Please send at least 2 files to merge.")
         /\ UNCHANGED <<user_sessions, heap, tasks>>
    ELSE /\ Store(user_sessions, SetOperation(heap, o, "merge_files"), tasks)
         /\ out' = Emit(u, "merge_files", "Configure merging options:")

handle_edit_metadata(u) ==
    LET o == user_sessions[u] IN
    IF ~EditPrecond(heap[o].files)
    THEN /\ out' = Emit(u, "edit_metadata", "Please send a single video file first.")
         /\ UNCHANGED <<user_sessions, heap, tasks>>
    ELSE /\ Store(user_sessions, SetOperation(heap, o, "edit_metadata"), tasks)
         /\ out' = Emit(u, "edit_metadata", "Select metadata to edit:")

show_added_files(u) ==
    /\ out' = Emit(u, "view_files", "Added files:")
    /\ UNCHANGED <<user_sessions, heap, tasks>>

\* remove_last_file up to its first await (callback_query.answer)
remove_last_file(u) ==
    LET o == user_sessions[u] IN
    IF heap[o].files = <<>>
    THEN /\ out' = Emit(u, "remove_last_file", "No files to remove.")
         /\ UNCHANGED <<user_sessions, heap, tasks>>
    ELSE /\ HasFreeTask
         /\ Store(user_sessions, [heap EXCEPT ![o].files = Pop(heap[o].files)],
                  Suspend(tasks, "removed", u, o))
         /\ out' = Emit(u, "remove_last_file", "Removed:")

cancel_operation(u) ==
    /\ Store(DeleteSession(user_sessions, u), heap, tasks)
    /\ out' = Emit(u, "cancel_operation", "Operation cancelled.")

handle_callback_query(u, data) ==
    \/ /\ ~HasSession(user_sessions, u)
       /\ out' = Emit(u, data, "Session expired. Please send a file again.")
       /\ UNCHANGED <<user_sessions, heap, tasks>>
    \/ HasSession(user_sessions, u) /\ data = "extract_tracks" /\ handle_extract_tracks(u)
    \/ HasSession(user_sessions, u) /\ data = "mux_files" /\ handle_mux_files(u)
    \/ HasSession(user_sessions, u) /\ data = "merge_files" /\ handle_merge_files(u)
    \/ HasSession(user_sessions, u) /\ data = "edit_metadata" /\ handle_edit_metadata(u)
    \/ /\ HasSession(user_sessions, u) /\ data = "add_another_file"
       /\ out' = Emit(u, data, "Please send the next file.")
       /\ UNCHANGED <<user_sessions, heap, tasks>>
    \/ HasSession(user_sessions, u) /\ data = "view_files" /\ show_added_files(u)
    \/ HasSession(user_sessions, u) /\ data = "remove_last_file" /\ remove_last_file(u)
    \/ HasSession(user_sessions, u) /\ data = "cancel_operation" /\ cancel_operation(u)
    \/ /\ HasSession(user_sessions, u)
       /\ data \notin {"extract_tracks", "mux_files", "merge_files", "edit_metadata",
                       "add_another_file", "view_files", "remove_last_file",
                       "cancel_operation"}
       /\ out' = Emit(u, data, "Unknown action.")
       /\ UNCHANGED <<user_sessions, heap, tasks>>

\* ------------------------------------------- suspended handlers resuming
\* an exception that reaches handle_callback_query's except clause
ErrorReply(u, event) == Emit(u, event, "An error occurred. Please try again.")

Finish(t) == [tasks EXCEPT ![t] = IdleTask]

\* remove_last_file after callback_query.answer returns
remove_last_file_resume(t) ==
    LET u == tasks[t].user
        session == heap[tasks[t].sess]
    IN /\ tasks[t].pc = "removed"
       /\ IF session.files = <<>>
          THEN IF HasSession(user_sessions, u)
               THEN /\ Store(DeleteSession(user_sessions, u), heap, Finish(t))
                    /\ out' = Emit(u, "remove_last_file", "All files removed.")
               ELSE \* del user_sessions[user_id] raises KeyError
                    /\ Store(user_sessions, heap, Finish(t))
                    /\ out' = ErrorReply(u, "remove_last_file")
          ELSE IF HasSession(user_sessions, u)
               THEN /\ Store(user_sessions, heap, Finish(t))
                    /\ out' = Emit(u, "remove_last_file", "Choose an action:")
               ELSE \* show_action_buttons: user_sessions[user_id] raises KeyError
                    /\ Store(user_sessions, heap, Finish(t))
                    /\ out' = ErrorReply(u, "remove_last_file")

\* the transport calls progress(current, total) while message.download runs;
\* due: whether now - last_update >= 1 at this call
download_progress(t) ==
    /\ tasks[t].pc = "downloading"
    /\ \E due \in BOOLEAN :
          out' = IF due THEN Emit(tasks[t].user, "extract_tracks", "Progress:") ELSE out
    /\ UNCHANGED <<user_sessions, heap, tasks>>

\* message.download returns the path; the final edit of the progress message
download_complete(t) ==
    /\ tasks[t].pc = "downloading"
    /\ Store(user_sessions, heap, [tasks EXCEPT ![t].pc = "downloaded"])
    /\ out' = Emit(tasks[t].user, "extract_tracks", "Download complete:")

\* message.download yields no file: os.path.getsize raises, the except
\* clause of handle_callback_query answers
download_failed(t) ==
    /\ tasks[t].pc = "downloading"
    /\ Store(user_sessions, heap, Finish(t))
    /\ out' = ErrorReply(tasks[t].user, "extract_tracks")

ReturnCodes == {0, 1}

\* get_mkv_tracks: mkvinfo is spawned and awaited; RuntimeError on a non-zero
\* return code, else the track selection message
probe_exit(t, returncode) ==
    /\ tasks[t].pc = "downloaded"
    /\ Store(user_sessions, heap, Finish(t))
    /\ out' = IF returncode # 0
              THEN ErrorReply(tasks[t].user, "extract_tracks")
              ELSE Emit(tasks[t].user, "extract_tracks", "Select tracks to extract:")

\* --------------------------------------------------------- specifications
\* the events of the users in S, each handled up to its first await
Events(S) ==
    \/ \E u \in S : handle_cancel(u)
    \/ \E u \in S : handle_reset(u)
    \/ \E u \in S, msg \in Messages : handle_file_input(u, msg)
    \/ \E u \in S, data \in CallbackData : handle_callback_query(u, data)

\* a suspended handler runs on to its next await or to its end
Resumes ==
    \/ \E t \in TaskIds : remove_last_file_resume(t)
    \/ \E t \in TaskIds : download_progress(t)
    \/ \E t \in TaskIds : download_complete(t)
    \/ \E t \in TaskIds : download_failed(t)
    \/ \E t \in TaskIds, returncode \in ReturnCodes : probe_exit(t, returncode)

\* Spec: the events of one user, in every interleaving of his handlers
Solo == {1}
Next == (Events(Solo) \/ Resumes) /\ UNCHANGED call
Spec == Init /\ [][Next]_vars

\* SpecUsers: the events of two users interleaved, one handler suspended at
\* a time
OneSuspended == \A t, s \in TaskIds : tasks[t].pc # "idle" /\ tasks[s].pc # "idle" => t = s
NextUsers == (Events(Users) \/ Resumes) /\ OneSuspended' /\ UNCHANGED call
SpecUsers == Init /\ [][NextUsers]_vars

\* -------------------------------------------------- utility: download_file
\* Clock readings (loop.time()) are counted in ticks of half a second.
TicksPerSecond == 2
\* the last clock reading of a download
MaxClock == 5
\* progress callbacks of a download
MaxCalls == 3

Clock == 0..MaxClock
\* the (current, total) pairs the transport reports; total = 0 when the
\* size is unknown
Currents == {1, 2}
Totals == {0, 2}

\* faulty variant: the interval is taken in ticks, not seconds
Due_PerTick(now, last_update) == now - last_update >= 1

\* now - last_update >= 1
Due(now, last_update) == now - last_update >= 1 * TicksPerSecond

DownloadCall ==
    [fn |-> "download_file", pc |-> "called", start_time |-> 0, now |-> 0,
     last_update |-> 0, downloaded |-> 0, calls |-> 0, updates |-> <<>>,
     terminal |-> <<>>, fault |-> None, pending |-> 0, shown |-> ""]

\* download_file up to message.download: the progress message is sent, the
\* clock is read into start_time
download_file ==
    /\ call.fn = "download_file" /\ call.pc = "called"
    /\ \E now \in Clock \ {MaxClock} :
          call' = [call EXCEPT !.pc = "downloading", !.start_time = now, !.now = now,
                               !.shown = "Downloading..."]
    /\ UNCHANGED <<user_sessions, heap, tasks, out>>

\* the closure progress(current, total), called by the transport after at
\* least one chunk arrived (the clock has moved on from start_time); fault is
\* the exception this call raises into the transport.  A due update is
\* handed to asyncio.create_task: updates records its launch, pending counts
\* the edit tasks launched and not yet carried out.
progress(current, total) ==
    /\ call.fn = "download_file" /\ call.pc = "downloading"
    /\ call.calls < MaxCalls
    /\ \E now \in Clock :
          /\ now >= call.now /\ now > call.start_time
          /\ call' =
                IF ~Due(now, call.last_update)
                THEN [call EXCEPT !.downloaded = current, !.now = now,
                                  !.calls = @ + 1, !.fault = None]
                ELSE IF total = 0
                THEN \* percent = (current / total) * 100
                     [call EXCEPT !.downloaded = current, !.now = now,
                                  !.calls = @ + 1, !.fault = "ZeroDivisionError"]
                ELSE [call EXCEPT !.downloaded = current, !.now = now,
                                  !.calls = @ + 1, !.fault = None,
                                  !.updates = Append(@, [at |-> now,
                                      percent |-> (current * 100) \div total]),
                                  !.pending = @ + 1,
                                  !.last_update = now]
    /\ UNCHANGED <<user_sessions, heap, tasks, out>>

\* an edit task launched by progress runs: progress_msg.edit_text(...)
\* replaces the text of the progress message.  Nothing awaits or cancels
\* these tasks, so one may run at any later point of the event loop.
progress_msg_edit_text ==
    /\ call.fn = "download_file" /\ call.pc \in {"downloading", "returned", "raised"}
    /\ call.pending > 0
    /\ call' = [call EXCEPT !.pending = @ - 1, !.shown = "Progress:"]
    /\ UNCHANGED <<user_sessions, heap, tasks, out>>

\* message.download returns the path: the final edit of the progress message
download_file_return ==
    /\ call.fn = "download_file" /\ call.pc = "downloading"
    /\ call' = [call EXCEPT !.pc = "returned",
                            !.terminal = Append(@, "Download complete:"),
                            !.shown = "Download complete:"]
    /\ UNCHANGED <<user_sessions, heap, tasks, out>>

\* faulty variant: the exception is swallowed, nothing is answered
download_file_raise_Silent ==
    /\ call.fn = "download_file" /\ call.pc = "downloading"
    /\ call' = [call EXCEPT !.pc = "raised"]
    /\ UNCHANGED <<user_sessions, heap, tasks, out>>

\* message.download raises, or yields None and os.path.getsize raises: the
\* except clause of handle_callback_query answers
download_file_raise ==
    /\ call.fn = "download_file" /\ call.pc = "downloading"
    /\ call' = [call EXCEPT !.pc = "raised",
                            !.terminal = Append(@, "An error occurred. Please try again.")]
    /\ UNCHANGED <<user_sessions, heap, tasks, out>>

\* ------------------------------------------------- utility: get_mkv_tracks
\* lines of a probe report
MaxLines == 3

\* A stripped line of mkvinfo's output, as far as the parser reads it:
\* <<what it starts with or contains, line.split(":")[1].strip()>>.
ReportLines ==
    { <<"+ A track", "">>, <<"Track type:", "Video">>, <<"Codec ID:", "A_AAC">>,
      <<"Language:", "eng">>, <<"Language:", "hin">>, <<"", "">> }

Reports == UNION {[1..n -> ReportLines] : n \in 0..MaxLines}

\* current_track = None
NoTrack == [id |-> -1, type |-> None, codec |-> None, language |-> None]

\* faulty variant: ids counted from 0
TrackId_ZeroBased(tracks) == Len(tracks)

\* len(tracks) + 1
TrackId(tracks) == Len(tracks) + 1

\* if current_track: tracks.append(current_track)
CloseTrack(tracks, current_track) ==
    IF current_track # NoTrack THEN Append(tracks, current_track) ELSE tracks

\* the body of the loop over lines, and the append after it
RECURSIVE ParseLines(_, _, _, _)
ParseLines(lines, i, tracks, current_track) ==
    IF i > Len(lines) THEN CloseTrack(tracks, current_track)
    ELSE LET line == lines[i] IN
         IF line[1] = "+ A track"
         THEN ParseLines(lines, i + 1, CloseTrack(tracks, current_track),
                  [NoTrack EXCEPT !.id = TrackId(CloseTrack(tracks, current_track))])
         ELSE IF current_track # NoTrack
         THEN ParseLines(lines, i + 1, tracks,
                  IF line[1] = "Track type:"
                  THEN [current_track EXCEPT !.type = Lower(line[2])]
                  ELSE IF line[1] = "Codec ID:"
                  THEN [current_track EXCEPT !.codec = line[2]]
                  ELSE IF line[1] = "Language:"
                  THEN [current_track EXCEPT !.language = line[2]]
                  ELSE current_track)
         ELSE ParseLines(lines, i + 1, tracks, current_track)

ProbeCall == [fn |-> "get_mkv_tracks", pc |-> "called", lines |-> <<>>, result |-> <<>>]

\* get_mkv_tracks up to proc.communicate(): mkvinfo is spawned
get_mkv_tracks ==
    /\ call.fn = "get_mkv_tracks" /\ call.pc = "called"
    /\ call' = [call EXCEPT !.pc = "spawned"]
    /\ UNCHANGED <<user_sessions, heap, tasks, out>>

\* mkvinfo exits: RuntimeError on a non-zero return code, else the parse of
\* its output
get_mkv_tracks_exit(returncode, lines) ==
    /\ call.fn = "get_mkv_tracks" /\ call.pc = "spawned"
    /\ call' = IF returncode # 0
               THEN [call EXCEPT !.pc = "raised", !.lines = lines]
               ELSE [call EXCEPT !.pc = "returned", !.lines = lines,
                                 !.result = ParseLines(lines, 1, <<>>, NoTrack)]
    /\ UNCHANGED <<user_sessions, heap, tasks, out>>

\* ------------------------------------------------- utility: extract_tracks
\* the largest track id requested
MaxTrackId == 2
\* track ids in a request
MaxRequest == 2
\* files in output_dir when the tool has exited
MaxOutputs == 2

Requests == UNION {[1..n -> 1..MaxTrackId] : n \in 0..MaxRequest}

\* the extensions the result is looked up with, in the order of the loop
CandidateExts == <<".mkv", ".mp4", ".aac", ".srt", ".ass">>

\* os.path.join(output_dir, f"track_{track_id}{ext}"), output_dir = "out"
TrackPath(track_id, ext) == "out/track_" \o ToString(track_id) \o ext

\* output_file of the command: os.path.join(output_dir, f"track_{track_id}")
OutputFile(track_id) == TrackPath(track_id, "")

\* the files the tool may leave in output_dir: a track's output under the
\* name it was given, or under a name with one of the extensions
AllPaths ==
    {TrackPath(id, ext) : id \in 1..MaxTrackId,
                         ext \in {""} \cup {CandidateExts[j] : j \in DOMAIN CandidateExts}}
Disks == {d \in SUBSET AllPaths : Cardinality(d) <= MaxOutputs}

\* command = ['mkvextract', file_path, 'tracks'] extended by one
\* f"{track_id}:{output_file}" per track id
ExtractCommand(track_ids) ==
    <<"mkvextract", "in.mkv", "tracks">> \o
        [i \in 1..Len(track_ids) |->
            ToString(track_ids[i]) \o ":" \o OutputFile(track_ids[i])]

\* faulty variant: the loop over the extensions has no break
ScanExts_NoBreak(track_id, disk, j) ==
    SelectSeq([k \in 1..Len(CandidateExts) |-> TrackPath(track_id, CandidateExts[k])],
              LAMBDA p : p \in disk)

\* for ext in [...]: if os.path.exists(...): append; break
RECURSIVE ScanExts(_, _, _)
ScanExts(track_id, disk, j) ==
    IF j > Len(CandidateExts) THEN <<>>
    ELSE IF TrackPath(track_id, CandidateExts[j]) \in disk
         THEN <<TrackPath(track_id, CandidateExts[j])>>
         ELSE ScanExts(track_id, disk, j + 1)

\* the loop over track_ids that fills extracted_files
RECURSIVE ExtractedFiles(_, _, _)
ExtractedFiles(track_ids, disk, i) ==
    IF i > Len(track_ids) THEN <<>>
    ELSE ScanExts(track_ids[i], disk, 1) \o ExtractedFiles(track_ids, disk, i + 1)

ExtractCall(track_ids) ==
    [fn |-> "extract_tracks", pc |-> "called", track_ids |-> track_ids,
     command |-> <<>>, disk |-> {}, result |-> <<>>]

\* extract_tracks up to proc.communicate(): the command is built, mkvextract
\* is spawned
extract_tracks ==
    /\ call.fn = "extract_tracks" /\ call.pc = "called"
    /\ call' = [call EXCEPT !.pc = "spawned", !.command = ExtractCommand(call.track_ids)]
    /\ UNCHANGED <<user_sessions, heap, tasks, out>>

\* mkvextract exits, leaving disk in output_dir: RuntimeError on a non-zero
\* return code, else the list of the files found
extract_tracks_exit(returncode, disk) ==
    /\ call.fn = "extract_tracks" /\ call.pc = "spawned"
    /\ call' = IF returncode # 0
               THEN [call EXCEPT !.pc = "raised", !.disk = disk]
               ELSE [call EXCEPT !.pc = "returned", !.disk = disk,
                                 !.result = ExtractedFiles(call.track_ids, disk, 1)]
    /\ UNCHANGED <<user_sessions, heap, tasks, out>>

\* ------------------------------------------------------ utility: mux_files
\* input files of a mux
MaxInputs == 2

InputPaths == {"a.mkv", "b.srt"}
FileLists == UNION {[1..n -> InputPaths] : n \in 1..MaxInputs}
\* options['title']: None for no 'title' key
Titles == {None, "", "My Movie"}

\* command = ['mkvmerge', '-o', output_file], then the files, then the title
\* if options.get('title') is truthy
MuxCommand(files, output_file, title) ==
    <<"mkvmerge", "-o", output_file>> \o files \o
        (IF title # None /\ title # "" THEN <<"--title", title>> ELSE <<>>)

MuxCall(files, title) ==
    [fn |-> "mux_files", pc |-> "called", files |-> files, output_file |-> "out.mkv",
     title |-> title, command |-> <<>>, result |-> None]

\* mux_files up to proc.communicate(): the command is built, mkvmerge is
\* spawned
mux_files ==
    /\ call.fn = "mux_files" /\ call.pc = "called"
    /\ call' = [call EXCEPT !.pc = "spawned",
                            !.command = MuxCommand(call.files, call.output_file, call.title)]
    /\ UNCHANGED <<user_sessions, heap, tasks, out>>

\* mkvmerge exits: RuntimeError on a non-zero return code, else output_file
mux_files_exit(returncode) ==
    /\ call.fn = "mux_files" /\ call.pc = "spawned"
    /\ call' = IF returncode # 0
               THEN [call EXCEPT !.pc = "raised"]
               ELSE [call EXCEPT !.pc = "returned", !.result = call.output_file]
    /\ UNCHANGED <<user_sessions, heap, tasks, out>>

\* ------------------------------------------------ utility: detect_language
\* dot-delimited segments of a file name
MaxSegments == 3

\* LANGUAGE_CODES, in the order of the dict
LANGUAGE_CODES ==
    << [code |-> "hi", variants |-> {"hi", "hin", "hindi"}],
       [code |-> "en", variants |-> {"en", "eng", "english"}],
       [code |-> "ta", variants |-> {"ta", "tam", "tamil"}],
       [code |-> "bn", variants |-> {"bn", "ben", "bengali"}],
       [code |-> "mr", variants |-> {"mr", "mar", "marathi"}],
       [code |-> "gu", variants |-> {"gu", "guj", "gujarati"}],
       [code |-> "kn", variants |-> {"kn", "kan", "kannada"}],
       [code |-> "ml", variants |-> {"ml", "mal", "malayalam"}],
       [code |-> "te", variants |-> {"te", "tel", "telugu"}],
       [code |-> "pa", variants |-> {"pa", "pan", "punjabi"}],
       [code |-> "or", variants |-> {"or", "ori", "odia"}],
       [code |-> "as", variants |-> {"as", "asm", "assamese"}],
       [code |-> "ne", variants |-> {"ne", "nep", "nepali"}],
       [code |-> "sa", variants |-> {"sa", "san", "sanskrit"}],
       [code |-> "ur", variants |-> {"ur", "urd", "urdu"}] >>

\* file names as sequences of their dot-delimited segments
NameSegments == {"movie", "EN", "hi", "tamil", "mkv"}
LanguageNames == UNION {[1..n -> NameSegments] : n \in 1..MaxSegments}

\* Path(filename).stem.split('.'): the segments without the last suffix
StemParts(filename) ==
    IF Len(filename) >= 2 THEN SubSeq(filename, 1, Len(filename) - 1) ELSE filename

\* the loop over LANGUAGE_CODES.items(): the first code of the table one of
\* whose variants is among the parts
RECURSIVE ScanLanguages(_, _)
ScanLanguages(parts, j) ==
    IF j > Len(LANGUAGE_CODES) THEN None
    ELSE IF \E variant \in LANGUAGE_CODES[j].variants :
                \E i \in DOMAIN parts : parts[i] = variant
         THEN LANGUAGE_CODES[j].code
         ELSE ScanLanguages(parts, j + 1)

detect_language(filename) ==
    ScanLanguages(StemParts([i \in DOMAIN filename |-> Lower(filename[i])]), 1)

LanguageCall(filename) ==
    [fn |-> "detect_language", pc |-> "called", filename |-> filename, result |-> None]

detect_language_return ==
    /\ call.fn = "detect_language" /\ call.pc = "called"
    /\ call' = [call EXCEPT !.pc = "returned", !.result = detect_language(call.filename)]
    /\ UNCHANGED <<user_sessions, heap, tasks, out>>

\* ---------------------------------------------- specification of utilities
\* SpecUtility: one call of a utility method, followed statement by
\* statement, for every argument and every answer of its environment
Calls ==
    {DownloadCall, ProbeCall}
        \cup {ExtractCall(track_ids) : track_ids \in Requests}
        \cup {MuxCall(files, title) : files \in FileLists, title \in Titles}
        \cup {LanguageCall(filename) : filename \in LanguageNames}

InitUtility ==
    /\ user_sessions = [u \in Users |-> 0]
    /\ heap = [o \in Objs |-> NewSession]
    /\ tasks = [t \in TaskIds |-> IdleTask]
    /\ out = Emit(0, "init", "")
    /\ call \in Calls

NextUtility ==
    \/ download_file
    \/ \E current \in Currents, total \in Totals : progress(current, total)
    \/ progress_msg_edit_text
    \/ download_file_return
    \/ download_file_raise
    \/ get_mkv_tracks
    \/ \E returncode \in ReturnCodes, lines \in Reports : get_mkv_tracks_exit(returncode, lines)
    \/ extract_tracks
    \/ \E returncode \in ReturnCodes, disk \in Disks : extract_tracks_exit(returncode, disk)
    \/ mux_files
    \/ \E returncode \in ReturnCodes : mux_files_exit(returncode)
    \/ detect_language_return

SpecUtility == InitUtility /\ [][NextUtility]_vars

\* ------------------------------------------------------------ observations
\* what a user's entry of the map holds
SessionOf(u) ==
    IF user_sessions[u] = 0
    THEN [present |-> FALSE, files |-> <<>>, current_operation |-> None]
    ELSE [present |-> TRUE, files |-> heap[user_sessions[u]].files,
          current_operation |-> heap[user_sessions[u]].current_operation]

Actions == {"extract_tracks", "mux_files", "merge_files", "edit_metadata"}

AcceptText(a) ==
    CASE a = "extract_tracks" -> "Downloading..."
      [] a = "mux_files" -> "Configure muxing options:"
      [] a = "merge_files" -> "Configure merging options:"
      [] a = "edit_metadata" -> "Select metadata to edit:"

RejectTexts ==
    {"Please send a single video file first.", "Please send at least 2 files to mux.",
     "Please send at least 2 files to merge.", "Session expired. Please send a file again."}

UploadAccepted == out.event = "file" /\ out.text = "Choose an action:"
SelectionAccepted == out.event \in Actions /\ out.text = AcceptText(out.event)
RemovalLeftFiles == out.event = "remove_last_file" /\ out.text = "Choose an action:"

\* ---------------------------------------------------------------------- C1
\* C1 as stated: after every successfully handled event (accepted upload,
\* accepted action selection, removal that leaves files) every user that has
\* a session has current_operation set and at least one staged file.
C1_AsStated ==
    (UploadAccepted \/ SelectionAccepted \/ RemovalLeftFiles) =>
        \A u \in Users : SessionOf(u).present =>
            /\ SessionOf(u).current_operation # None
            /\ Len(SessionOf(u).files) >= 1

\* C1 amended: after an accepted upload or an accepted action selection the
\* user of the event has a session with at least one staged file, and after a
\* removal that leaves files he still has a session; current_operation is
\* the selected action after an accepted selection, and is not required to
\* be set after an upload or a removal.
C1_SessionAfterEvent ==
    /\ (UploadAccepted \/ SelectionAccepted) =>
          SessionOf(out.user).present /\ Len(SessionOf(out.user).files) >= 1
    /\ SelectionAccepted => SessionOf(out.user).current_operation = out.event
    /\ RemovalLeftFiles => SessionOf(out.user).present

\* an accepted first upload: a session with a file and no operation
C1_Witness ==
    /\ UploadAccepted
    /\ Len(SessionOf(out.user).files) = 1
    /\ SessionOf(out.user).current_operation = None

\* ---------------------------------------------------------------------- C2
\* C2: a remove_last_file suspended between its read of the session (and
\* pop) and its `del user_sessions[user_id]` sees no other handler change
\* its user's entry of the map or session while it stays suspended.
C2_NoInterleaving ==
    [][\A t \in TaskIds, u \in Users :
          (tasks[t].pc = "removed" /\ tasks[t].user = u /\ tasks'[t].pc = "removed") =>
              SessionOf(u)' = SessionOf(u)]_vars

\* ---------------------------------------------------------------------- C3
\* C3: a step taken for one user (out'.user) leaves every other user's
\* session (presence, files in order, current_operation) and every other
\* user's suspended handlers as they were.
HandlersOf(u) == {tasks[t].pc : t \in {s \in TaskIds : tasks[s].user = u}}

C3_NoCrossUser ==
    [][\A u \in Users : out'.user # u =>
          /\ SessionOf(u)' = SessionOf(u)
          /\ HandlersOf(u)' = HandlersOf(u)]_vars

\* user 2's upload handled while user 1 has an operation selected and a
\* download in flight
C3_Witness ==
    /\ out.user = 2 /\ UploadAccepted
    /\ SessionOf(1).current_operation = "extract_tracks"
    /\ \E t \in TaskIds : tasks[t].user = 1 /\ tasks[t].pc = "downloading"

\* ---------------------------------------------------------------------- C4
\* the precondition of each action, as the claim states it
ClaimPrecond(a, files) ==
    IF a \in {"extract_tracks", "edit_metadata"}
    THEN Len(files) = 1 /\ files[1].file_type = "video"
    ELSE Len(files) >= 2

\* C4: a selection of action a is accepted (current_operation becomes a, the
\* files stay) exactly when the user has a session whose files meet a's
\* precondition; otherwise it is rejected and the session is unchanged.
C4_SelectionPrecond ==
    [][\A a \in Actions, u \in Users :
          (out'.user = u /\ out'.event = a /\
           out'.text \in RejectTexts \cup {AcceptText(a)}) =>
              IF SessionOf(u).present /\ ClaimPrecond(a, SessionOf(u).files)
              THEN /\ out'.text = AcceptText(a)
                   /\ SessionOf(u)' = [SessionOf(u) EXCEPT !.current_operation = a]
              ELSE /\ out'.text \in RejectTexts
                   /\ SessionOf(u)' = SessionOf(u)]_vars

\* extract_tracks rejected on a single file that is no video
C4_Witness ==
    /\ out.event = "extract_tracks"
    /\ out.text = "Please send a single video file first."
    /\ Len(SessionOf(out.user).files) = 1
    /\ SessionOf(out.user).files[1].file_type = "subtitles"

C6_RemoveResetsOperation ==
    [][\A u \in Users :
          (out'.user = u /\ out'.event = "remove_last_file" /\ out'.text = "Removed:"
              /\ SessionOf(u)'.present /\ Len(SessionOf(u)'.files) >= 1) =>
                SessionOf(u)'.current_operation = None]_vars

\* ---------------------------------------------------------------------- C7
CancelEvents == {"/cancel", "/reset", "cancel_operation"}

\* C7: after /cancel, the Cancel button or /reset is handled the user has no
\* session, whatever the session was; with no session to begin with, the map
\* (and all else) is unchanged and no error is answered.
C7_CancelDeletes ==
    [][\A u \in Users :
          (out'.user = u /\ out'.event \in CancelEvents) =>
              /\ ~SessionOf(u)'.present
              /\ ~SessionOf(u).present =>
                    /\ UNCHANGED <<user_sessions, heap, tasks>>
                    /\ out'.text # "An error occurred. Please try again."]_vars

\* /cancel handled while the download of an extract operation is in flight
C7_Witness ==
    /\ out.event = "/cancel" /\ out.text = "Current operation cancelled."
    /\ ~SessionOf(out.user).present
    /\ \E t \in TaskIds : tasks[t].user = out.user /\ tasks[t].pc = "downloading"

\* ---------------------------------------------------------------------- C8
\* C8: with two or more files staged, Mux accepted and the title just set
\* (the set_output_title button), the run event (start_muxing) issues the
\* combine invocation (mkvmerge) on the staged files.
C8_RunStartsMux ==
    [][\A u \in Users :
          (/\ out.user = u /\ out.event = "set_output_title"
           /\ SessionOf(u).present /\ SessionOf(u).current_operation = "mux_files"
           /\ Len(SessionOf(u).files) >= 2
           /\ out'.user = u /\ out'.event = "start_muxing") =>
              out'.text = "exec mkvmerge"]_vars

\* ---------------------------------------------------------------------- C9
\* C9: once a cancel event of a user is handled while his extract operation
\* is in flight, the next step emits no progress update, no completion
\* update and no track-selection prompt of that operation.
C9_CancelStopsReporting ==
    [][\A u \in Users :
          (/\ out.user = u /\ out.event \in CancelEvents /\ ~SessionOf(u).present
           /\ \E t \in TaskIds : tasks[t].user = u /\ tasks[t].pc \in {"downloading", "downloaded"}
           /\ out'.user = u /\ out'.event = "extract_tracks") =>
              out'.text \notin {"Progress:", "Download complete:",
                                "Select tracks to extract:"}]_vars

\* --------------------------------------------------------------------- C10
\* C10: when the probe (mkvinfo) exits non-zero the session is not left
\* configured with the same current_operation, and the reply carries the
\* tool's stderr text.
C10_ProbeFailure ==
    [][\A t \in TaskIds, u \in Users :
          (/\ tasks[t].pc = "downloaded" /\ tasks[t].user = u /\ tasks'[t].pc = "idle"
           /\ out'.text # "Select tracks to extract:") =>
              /\ out'.text = "mkvinfo failed: stderr"
              /\ SessionOf(u)'.present => SessionOf(u)'.current_operation # "extract_tracks"]_vars

\* --------------------------------------------------------------------- C11
\* C11: an upload whose declared size exceeds MAX_FILE_SIZE is answered with
\* the too-large notice and changes no session and creates none, whether it
\* arrives as a document, a video or an audio message.
C11_OversizeRejected ==
    [][\A u \in Users, msg \in Messages :
          (msg.file_size > MAX_FILE_SIZE /\ handle_file_input(u, msg)) =>
              /\ out'.text = "File is too large!"
              /\ UNCHANGED <<user_sessions, heap>>]_vars

\* --------------------------------------------------------------------- C12
\* an extension that is in none of the supported lists
Unsupported(msg) ==
    /\ msg.file_name # <<>>
    /\ Suffix(msg.file_name) \notin
          SUPPORTED_EXTENSIONS.video \cup SUPPORTED_EXTENSIONS.audio
              \cup SUPPORTED_EXTENSIONS.subtitles

\* C12: an upload with an unsupported extension, and a button press of a
\* user who has no session, leave the session map as it was: every user's
\* presence, files and current_operation are unchanged.
C12_RejectionFrame ==
    [][/\ \A u \in Users, msg \in Messages :
             (Unsupported(msg) /\ handle_file_input(u, msg)) =>
                 \A v \in Users : SessionOf(v)' = SessionOf(v)
       /\ \A u \in Users, data \in CallbackData :
             (~SessionOf(u).present /\ handle_callback_query(u, data)) =>
                 \A v \in Users : SessionOf(v)' = SessionOf(v)]_vars

\* a button press of user 1, who has no session, answered while user 2 has a
\* session with an operation selected
C12_Witness ==
    /\ out.user = 1 /\ out.text = "Session expired. Please send a file again."
    /\ ~SessionOf(1).present
    /\ SessionOf(2).present /\ SessionOf(2).current_operation # None

\* --------------------------------------------------------------------- C13
\* C13: a download that was started and has ended has emitted exactly one
\* terminal update, the success summary when it completed and the failure
\* notice when it failed; while it runs it has emitted none.
C13_OneTerminalUpdate ==
    call.fn = "download_file" =>
        /\ call.pc = "returned" => call.terminal = <<"Download complete:">>
        /\ call.pc = "raised" => call.terminal = <<"An error occurred. Please try again.">>
        /\ call.pc \in {"called", "downloading"} => call.terminal = <<>>

\* a download that completed after periodic updates
C13_Witness ==
    /\ call.fn = "download_file" /\ call.pc = "returned"
    /\ Len(call.updates) >= 1 /\ Len(call.terminal) = 1

\* --------------------------------------------------------------------- C14
\* C14: a progress callback with an unknown total (total = 0) raises no
\* arithmetic fault.
C14_UnknownTotalTolerated ==
    [][\A current \in Currents : progress(current, 0) => call'.fault = None]_vars

\* --------------------------------------------------------------------- C15
\* C15: any two consecutive periodic progress updates of a download are at
\* least one second apart.
C15_RateLimit ==
    call.fn = "download_file" =>
        \A i \in 1..(Len(call.updates) - 1) :
            call.updates[i + 1].at - call.updates[i].at >= TicksPerSecond

\* two periodic updates, and a callback between them that was not due
C15_Witness ==
    /\ call.fn = "download_file"
    /\ Len(call.updates) >= 2 /\ call.calls > Len(call.updates)

\* --------------------------------------------------------------------- C16
\* the positions of the track-start markers of a report, and of the k-th
MarkerPos(lines) == {i \in 1..Len(lines) : lines[i][1] = "+ A track"}
KthMarker(lines, k) ==
    CHOOSE p \in MarkerPos(lines) : Cardinality({q \in MarkerPos(lines) : q <= p}) = k
\* the lines between the k-th marker and the next marker (or the end)
BlockOf(lines, k) ==
    {i \in 1..Len(lines) :
        /\ i > KthMarker(lines, k)
        /\ \A q \in MarkerPos(lines) : q > KthMarker(lines, k) => i < q}
\* the value of the last line with the key in the k-th block, None without one
AttrOf(lines, k, key) ==
    LET at == {i \in BlockOf(lines, k) : lines[i][1] = key}
    IN IF at = {} THEN None
       ELSE lines[CHOOSE i \in at : \A j \in at : j <= i][2]

\* C16: for a report with N track-start markers get_mkv_tracks returns N
\* tracks with ids 1..N in report order, each carrying the attributes of the
\* lines between its own marker and the next one only; lines before the
\* first marker reach no track.
C16_TracksOfReport ==
    (call.fn = "get_mkv_tracks" /\ call.pc = "returned") =>
        /\ Len(call.result) = Cardinality(MarkerPos(call.lines))
        /\ \A k \in 1..Len(call.result) :
              /\ call.result[k].id = k
              /\ call.result[k].type = Lower(AttrOf(call.lines, k, "Track type:"))
              /\ call.result[k].codec = AttrOf(call.lines, k, "Codec ID:")
              /\ call.result[k].language = AttrOf(call.lines, k, "Language:")

\* a report with an attribute line before the first marker and two tracks
C16_Witness ==
    /\ call.fn = "get_mkv_tracks" /\ call.pc = "returned"
    /\ Len(call.lines) >= 3 /\ call.lines[1][1] = "Language:"
    /\ Len(call.result) = 2

\* --------------------------------------------------------------------- C17
\* the requested positions whose track id has an output under one of the
\* candidate extensions, and the first such extension
HasOutput(track_id, disk) ==
    \E j \in DOMAIN CandidateExts : TrackPath(track_id, CandidateExts[j]) \in disk
FirstExt(track_id, disk) ==
    CandidateExts[CHOOSE j \in DOMAIN CandidateExts :
        /\ TrackPath(track_id, CandidateExts[j]) \in disk
        /\ \A k \in 1..(j - 1) : TrackPath(track_id, CandidateExts[k]) \notin disk]
Found(track_ids, disk) ==
    SelectSeq([i \in 1..Len(track_ids) |-> i], LAMBDA i : HasOutput(track_ids[i], disk))

\* C17: after the tool exits 0 the result holds, in request order, the first
\* existing candidate (.mkv, .mp4, .aac, .srt, .ass) of each requested id
\* that has one, and nothing for the other ids; no error is raised.
C17_ExtractedPaths ==
    (call.fn = "extract_tracks" /\ call.pc = "returned") =>
        LET found == Found(call.track_ids, call.disk)
        IN /\ Len(call.result) = Len(found)
           /\ \A n \in 1..Len(found) :
                 call.result[n] = TrackPath(call.track_ids[found[n]],
                                      FirstExt(call.track_ids[found[n]], call.disk))

\* ids 1 and 2 requested, only track 2 has an output, under two extensions
C17_Witness ==
    /\ call.fn = "extract_tracks" /\ call.pc = "returned"
    /\ call.track_ids = <<1, 2>>
    /\ call.disk = {TrackPath(2, ".srt"), TrackPath(2, ".mp4")}
    /\ call.result = <<TrackPath(2, ".mp4")>>

\* --------------------------------------------------------------------- C18
\* C18: the command of mux_files is the merge tool, -o, the output path,
\* then --title and the title if and only if a title was set, then the
\* input paths in their order.
C18_CommandOrder ==
    (call.fn = "mux_files" /\ call.pc # "called") =>
        call.command =
            <<"mkvmerge", "-o", call.output_file>> \o
                (IF call.title # None /\ call.title # ""
                 THEN <<"--title", call.title>> ELSE <<>>) \o
                call.files

\* --------------------------------------------------------------------- C19
\* the code whose variants hold a segment, None for a segment of no language
CodeOf(segment) ==
    IF \E j \in DOMAIN LANGUAGE_CODES : segment \in LANGUAGE_CODES[j].variants
    THEN LANGUAGE_CODES[CHOOSE j \in DOMAIN LANGUAGE_CODES :
                            segment \in LANGUAGE_CODES[j].variants].code
    ELSE None

\* C19: detect_language returns the code of the leftmost segment of the
\* base name (extension stripped, lower-cased) that is a variant of the
\* table, and None when no segment is one.
C19_LeftmostSegment ==
    (call.fn = "detect_language" /\ call.pc = "returned") =>
        LET parts == StemParts([i \in DOMAIN call.filename |-> Lower(call.filename[i])])
            hits == {i \in DOMAIN parts : CodeOf(parts[i]) # None}
        IN call.result =
              IF hits = {} THEN None
              ELSE CodeOf(parts[CHOOSE i \in hits : \A k \in hits : i <= k])

\* --------------------------------------------------------------------- C20
\* the output paths the command names, one per "<trackId>:<outputPath>"
NamedOutputs(command) ==
    {p \in AllPaths : \E id \in 1..MaxTrackId, k \in DOMAIN command :
                          command[k] = ToString(id) \o ":" \o p}

\* C20: when the tool exits 0 having written every output file the command
\* names, the result holds one path per requested track id, the path the
\* command named for it.
C20_NamedOutputsReturned ==
    (/\ call.fn = "extract_tracks" /\ call.pc = "returned"
     /\ NamedOutputs(call.command) \subseteq call.disk) =>
        /\ Len(call.result) = Len(call.track_ids)
        /\ \A i \in 1..Len(call.result) :
              call.result[i] \in NamedOutputs(call.command)

\* --------------------------------------------------------------------- C21
\* C21: in every reachable state the selected operation of a session still
\* meets the precondition it was accepted under: extract_tracks and
\* edit_metadata with exactly one staged file, a video; mux_files and
\* merge_files with at least two staged files.
C21_OperationPrecond ==
    \A u \in Users :
        (SessionOf(u).present /\ SessionOf(u).current_operation \in Actions) =>
            ClaimPrecond(SessionOf(u).current_operation, SessionOf(u).files)

\* --------------------------------------------------------------------- C22
\* C22: when remove_last_file resumes after its await it removes from the
\* map only the session object it popped the file from, and only when that
\* object has no files left; and it does not end in the generic error reply
\* (a missing key).
C22_RemoveDeletesOwnSession ==
    [][\A t \in TaskIds, u \in Users :
          (tasks[t].pc = "removed" /\ tasks[t].user = u /\ tasks'[t].pc = "idle") =>
              /\ (SessionOf(u).present /\ ~SessionOf(u)'.present) =>
                    /\ user_sessions[u] = tasks[t].sess
                    /\ SessionOf(u).files = <<>>
              /\ out'.text # "An error occurred. Please try again."]_vars

\* --------------------------------------------------------------------- C23
\* C23: once the download has returned, the progress message shows the
\* terminal 'Download complete' update: no periodic progress edit is carried
\* out after it.
C23_TerminalIsLastEdit ==
    (call.fn = "download_file" /\ call.pc = "returned") =>
        call.shown = "Download complete:"
====
